---- MODULE Spec2Model ----
(***************************************************************************)
(* Model of the paginated list operations of SecretClient                  *)
(* (sdk/keyvault/keyvault-secrets/src/index.ts).                           *)
(*                                                                         *)
(* listPropertiesOfSecrets, listPropertiesOfSecretVersions and             *)
(* listDeletedSecrets have the same structure: an async generator          *)
(* "...Page" that follows the server's nextLink through a settings object, *)
(* an async generator "...All" that flattens the pages over a private      *)
(* settings object, and a list result {next, [Symbol.asyncIterator],       *)
(* byPage}.  One model stands for the three.                               *)
(*                                                                         *)
(* An async generator runs synchronously from one await/yield to the next, *)
(* so every action below is the code between two suspension points.        *)
(*                                                                         *)
(* beginDeleteSecret builds a DeleteSecretPoller and awaits its first      *)
(* poll(); the poller itself lives in ./lro/delete/poller and is modelled  *)
(* from the description of its states in the specification.                *)
(***************************************************************************)
EXTENDS Integers, Sequences, FiniteSets, TLC

(* ------------------------------ bounds -------------------------------- *)
MaxPages   == 3    \* longest server chain
MaxPageLen == 2    \* most items in one page
MaxPending == 2    \* most next() calls queued on one iterator
MaxItems   == 2    \* most items in the query string of a request URL

(* ------------------------- value encodings ---------------------------- *)
\* continuationToken / nextLink values.  A link to page p (p >= 2) is p.
Null     == 0      \* undefined or null (the code tests "== null")
Empty    == 0 - 1  \* the empty string: not null, but falsy
VaultUrl == 1      \* the URL of the first page
NoMax    == 0      \* maxresults absent (or undefined)
NoReq    == [url |-> Null, maxresults |-> NoMax]
NoResp   == 0 - 2  \* no response received yet

PageGens == {"f", "p1", "p2"}   \* "f": the page generator inside ...All
ByPageGens == {"p1", "p2"}      \* generators returned by byPage()
Objs == {"f", "d1", "d2", "s"}  \* settings objects; "s" is held by the caller

VARIABLES
  pages,      \* server: pages[p] = number of items of page p, -1 = no value array
  bare,       \* server: its bundles carry an id and no attributes
  settings,   \* settings[o] = [continuationToken, maxPageSize]
  pc,         \* pc[g]: position of page generator g
  cursor,     \* cursor[g]: the settings object g was called with
  startTok,   \* startTok[g]: continuationToken of that object when byPage was called
  hint,       \* hint[g]: maxPageSize of that object when byPage was called
  inflight,   \* inflight[g]: the request g awaits, or NoReq
  reqs,       \* reqs[g]: the requests g has issued, in order
  lastResp,   \* lastResp[g]: nextLink of the last response g received
  pending,    \* pending[g]: next() calls on g not yet resolved
  pagesOut,   \* pagesOut[g]: pages g has yielded, in order
  ended,      \* ended[g]: a next() on g has resolved with done
  pcAll,      \* position of the ...All generator of the list result
  pendingAll, \* next() calls on the list result not yet resolved
  curPage,    \* items of the current page not yet yielded by ...All
  itemsOut,   \* items the list result has yielded, in order
  endedAll,   \* a next() on the list result has resolved with done
  handleAt,   \* items yielded when [Symbol.asyncIterator]() was last called, or -1
  outstanding, \* outstanding[g]: requests of g sent and not yet answered
  thrown,     \* thrown[g]: the error page generator g ended with, or "none"
  thrownAll,  \* the error a next() of the list result rejected with, or "none"
  status,     \* poller: NotStarted, InProgress, Succeeded or Failed
  beginPc,    \* beginDeleteSecret: idle, polling, returned or rejected
  pollNet,    \* poller: requests sent and not yet answered
  pollKind,   \* poller: the request in flight ("start": delete/recover, "probe": get)
  pollPending, \* poller: poll() calls not yet resolved
  kind,       \* poller: "delete" or "recover" ("none" before begin...)
  svc,        \* service: the operation is not requested yet ("before"),
              \* accepted ("pending") or complete, the target observable ("ready")
  pollOp,     \* poller: the service operation of the request in flight
  starts,     \* delete / recover requests sent so far
  trips,      \* requests sent for the poll() in progress
  lastAnswer, \* the last answer of the service: request, operation, outcome
  raised,     \* the error the last settled poll() threw, or "none"
  result,     \* poller: its result, "none" until it has one
  udPc,       \* pollUntilDone: idle, loop, waiting, returned or rejected
  resumedAt,  \* status in the token the poller was rebuilt from, or "none"
  client,     \* the generated client the constructor call left, if any
  callerOptions, \* the caller's options object after the constructor call
  givenOptions, \* that object as it was when the constructor was called
  request,    \* the last request: its URL, the URL handed on, times forwarded
  given,      \* the bundle handed to result shaping, as it was
  bundleObj,  \* that bundle after the call
  shaped      \* what result shaping returned

vars == <<pages, bare, thrown, thrownAll, settings, pc, cursor, startTok, hint, inflight, reqs,
          lastResp, pending, pagesOut, ended, pcAll, pendingAll, curPage,
          itemsOut, endedAll, handleAt, outstanding,
          status, beginPc, pollNet, pollKind, pollPending,
          kind, svc, pollOp, starts, trips, lastAnswer, raised, result, udPc,
          resumedAt, client, callerOptions, givenOptions, request, given, bundleObj, shaped>>

serverVars == <<pages, bare>>
failVars == <<thrown, thrownAll>>
allVars == <<pcAll, pendingAll, curPage, itemsOut, endedAll>>
clientVars == <<client, callerOptions, givenOptions, request>>
shapeVars == <<given, bundleObj, shaped>>
lroVars == <<status, beginPc, pollNet, pollKind, pollPending,
             kind, svc, pollOp, starts, trips, lastAnswer, raised, result, udPc,
             resumedAt>>
pagingVars == <<pages, bare, thrown, thrownAll, settings, pc, cursor, startTok, hint, inflight, reqs, lastResp,
                pending, pagesOut, ended, pcAll, pendingAll, curPage, itemsOut,
                endedAll, handleAt, outstanding>>

(* ------------------------------ server -------------------------------- *)
NumPages == Len(pages)
HasValue(p) == pages[p] >= 0
\* the bundles of page p; a bundle is identified by its id
Value(p) == [k \in 1..pages[p] |-> [id |-> <<p, k>>]]
\* the last page has no nextLink
NextLink(p) == IF p < NumPages THEN p + 1 ELSE Null

\* every item the server holds, in server order
RECURSIVE ServerItemsFrom(_)
ServerItemsFrom(p) ==
  IF p > NumPages THEN <<>>
  ELSE (IF HasValue(p) THEN Value(p) ELSE <<>>) \o ServerItemsFrom(p + 1)

(* --------------------------- result shaping --------------------------- *)
\* (bundle) => this.getSecretFromSecretBundle(bundle).properties, for a bundle
\* that has an id and attributes: the properties carry the name parsed from
\* the id (...parsedId), which tells the items apart
BundleProperties(bundle) == [name |-> bundle.id]

\* currentSetResponse.value.map(...): one client object per bundle, in order
MapPage(value) == [k \in 1..Len(value) |-> BundleProperties(value[k])]

RECURSIVE Concat(_)
Concat(ps) == IF ps = <<>> THEN <<>> ELSE Head(ps) \o Concat(Tail(ps))

Undefined == "undefined"
NullValue == "null"
\* an object is a function from its keys to their values
NoObject == <<>>
Delete(obj, k) == [x \in DOMAIN obj \ {k} |-> obj[x]]
Get(obj, k) == IF k \in DOMAIN obj THEN obj[k] ELSE Undefined
IsSet(obj, k) == k \in DOMAIN obj /\ obj[k] \notin {Undefined, NullValue, "", "false"}

\* parseKeyvaultEntityIdentifier("secrets", id): the vault URL and the
\* trailing name
parseKeyvaultEntityIdentifier(id) ==
  ("vaultUrl" :> "https://vault") @@ ("name" :> id)

\* lines 897-913: an old timestamp field is removed when the attributes
\* have a value for it
RemoveRenamedKeepExpires(properties, attributes) ==
  LET p1 == IF IsSet(attributes, "vaultUrl") THEN Delete(properties, "vaultUrl")
            ELSE properties
      p3 == IF IsSet(attributes, "created") THEN Delete(p1, "created") ELSE p1
  IN  IF IsSet(attributes, "updated") THEN Delete(p3, "updated") ELSE p3
RemoveRenamed(properties, attributes) ==
  LET p1 == IF IsSet(attributes, "vaultUrl") THEN Delete(properties, "vaultUrl")
            ELSE properties
      p2 == IF IsSet(attributes, "expires") THEN Delete(p1, "expires") ELSE p1
      p3 == IF IsSet(attributes, "created") THEN Delete(p2, "created") ELSE p2
  IN  IF IsSet(attributes, "updated") THEN Delete(p3, "updated") ELSE p3

NotShaped == [state |-> "none", value |-> Undefined, name |-> Undefined,
              properties |-> NoObject]

\* getSecretFromSecretBundle(bundle): reading attributes.expires throws when
\* the bundle has no attributes
getSecretFromSecretBundle(b) ==
  LET parsedId == parseKeyvaultEntityIdentifier(b.fields["id"])
      attributes == b.attributes
      secretBundle == b.fields
      properties ==
        attributes @@ parsedId @@ secretBundle @@
          ("vaultUrl" :> parsedId["vaultUrl"]) @@
          ("expiresOn" :> Get(attributes, "expires")) @@
          ("createdOn" :> Get(attributes, "created")) @@
          ("updatedOn" :> Get(attributes, "updated"))
      moved ==
        IF IsSet(secretBundle, "deletedDate")
          THEN Delete(("deletedOn" :> secretBundle["deletedDate"]) @@ properties,
                      "deletedDate")
          ELSE properties
  IN  IF ~b.hasAttributes
        THEN [NotShaped EXCEPT !.state = "threw"]
      ELSE [state |-> "returned", value |-> Get(secretBundle, "value"),
            name |-> parsedId["name"],
            properties |-> RemoveRenamed(moved, attributes)]

\* the bundle after the call: line 876 deletes its attributes
BundleAfter(b) == [b EXCEPT !.hasAttributes = FALSE, !.attributes = NoObject]

\* the bundles of the service: an id, and possibly a value, deletion fields
\* and attributes; a timestamp, when present, is a date
Subsets(keys, val) == UNION {[ks -> {val}] : ks \in SUBSET keys}
BundleFields ==
  {("id" :> i) @@ f @@ g : i \in {"A", "B"},
                           f \in Subsets({"value"}, "secret"),
                           g \in Subsets({"deletedDate", "recoveryId"}, "deleted")}
AttributeSets ==
  {f @@ g : f \in Subsets({"expires", "created", "updated"}, "date"),
            g \in Subsets({"enabled"}, "true")}
Bundles ==
  [fields : BundleFields, hasAttributes : {TRUE}, attributes : AttributeSets]
    \cup [fields : BundleFields, hasAttributes : {FALSE}, attributes : {NoObject}]
NoBundle == [fields |-> NoObject, hasAttributes |-> FALSE, attributes |-> NoObject]

\* a bundle of the service response: its id, and its attributes unless the
\* service sent none
ServerBundle(p, k) ==
  [fields |-> ("id" :> Value(p)[k].id), hasAttributes |-> ~bare,
   attributes |-> IF bare THEN NoObject ELSE ("enabled" :> "true")]

\* currentSetResponse.value.map(...) throws when shaping one of the bundles
\* throws
MapThrows(p) ==
  /\ HasValue(p)
  /\ \E k \in 1..pages[p] : getSecretFromSecretBundle(ServerBundle(p, k)).state = "threw"

(* --------------------------- page generator --------------------------- *)
Truthy(t) == t # Null /\ t # Empty

Token(g) == settings[cursor[g]].continuationToken

\* variant: a missing nextLink leaves the stored token as it was
NewTokenKeep(g) ==
  IF NextLink(inflight[g].url) = Null THEN Token(g) ELSE NextLink(inflight[g].url)

\* variant: the client computes the token instead of storing the server's
NewTokenSkip(g) ==
  LET nl == NextLink(inflight[g].url)
  IN IF nl # Null /\ nl < NumPages THEN nl + 1 ELSE nl

\* currentSetResponse.nextLink, as it is stored in the settings object
NewToken(g) == NextLink(inflight[g].url)

\* variant: the page-size hint is sent with every request
WhileStepWithMax(g, t) ==
  IF Truthy(t)
    THEN [ev |-> "fetch", pc |-> "fetchN",
          req |-> [url |-> t, maxresults |-> settings[cursor[g]].maxPageSize]]
    ELSE [ev |-> "done", pc |-> "done", req |-> NoReq]

\* while (continuationState.continuationToken) { await getSecrets(token, options)
WhileStep(g, t) ==
  IF Truthy(t)
    THEN [ev |-> "fetch", pc |-> "fetchN", req |-> [url |-> t, maxresults |-> NoMax]]
    ELSE [ev |-> "done", pc |-> "done", req |-> NoReq]

\* variant: a generator that starts always asks for the first page
ResumeStepFromFirst(g) ==
  IF pc[g] = "start"
    THEN [ev |-> "fetch", pc |-> "fetch1",
          req |-> [url |-> VaultUrl, maxresults |-> settings[cursor[g]].maxPageSize]]
    ELSE WhileStep(g, Token(g))

\* the generator starts or resumes after a yield, and runs to its next await
ResumeStep(g) ==
  IF pc[g] = "start" /\ Token(g) = Null
    THEN [ev |-> "fetch", pc |-> "fetch1",
          req |-> [url |-> VaultUrl, maxresults |-> settings[cursor[g]].maxPageSize]]
    ELSE WhileStep(g, Token(g))

\* variant: the loop goes on after a response without a value array
ResponseStepNoBreak(g) ==
  LET p == inflight[g].url
  IN IF HasValue(p)
       THEN [ev |-> "yield", pc |-> IF pc[g] = "fetch1" THEN "yield1" ELSE "yieldN",
             req |-> NoReq]
       ELSE WhileStep(g, NewToken(g))

\* the awaited response arrives; the token has been overwritten with nextLink
ResponseStep(g) ==
  LET p == inflight[g].url
  IN IF HasValue(p)
       THEN [ev |-> "yield", pc |-> IF pc[g] = "fetch1" THEN "yield1" ELSE "yieldN",
             req |-> NoReq]
       ELSE IF pc[g] = "fetch1"
              THEN WhileStep(g, NewToken(g))
              ELSE [ev |-> "done", pc |-> "done", req |-> NoReq]

\* a generator is resumed by next() only where it is suspended: before its
\* first statement or at a yield; while it awaits, next() calls queue up
Suspended(g) == pc[g] \in {"start", "yield1", "yieldN"}
Awaiting(g) == pc[g] \in {"fetch1", "fetchN"}

\* the generator-local effect of a step; answered = 1 when the step starts
\* with the arrival of a response
Apply(g, st, answered) ==
  /\ pc' = [pc EXCEPT ![g] = st.pc]
  /\ inflight' = [inflight EXCEPT ![g] = st.req]
  /\ reqs' = [reqs EXCEPT ![g] = IF st.ev = "fetch" THEN Append(@, st.req) ELSE @]
  /\ outstanding' = [outstanding EXCEPT ![g] =
        @ - answered + (IF st.ev = "fetch" THEN 1 ELSE 0)]

\* continuationState.continuationToken = currentSetResponse.nextLink
StoreToken(g) ==
  /\ settings' = [settings EXCEPT ![cursor[g]].continuationToken = NewToken(g)]
  /\ lastResp' = [lastResp EXCEPT ![g] = NextLink(inflight[g].url)]

(* ------------------------------ byPage -------------------------------- *)
\* variant: the default settings object is one object for every call
OwnObjShared(g) == "d1"
\* settings = {}: each call without argument gets an object of its own
OwnObj(g) == IF g = "p1" THEN "d1" ELSE "d2"
StartTokens == {Null, Empty} \cup (2..NumPages)
Sizes == {NoMax, 2}

\* byPage: (settings = {}) => this.listPropertiesOfSecretsPage(settings, updatedOptions)
\* called with no argument, with a fresh object, or with the object "s" the
\* caller keeps (built as {continuationToken: t, maxPageSize: m} for the first
\* call that gets it, passed as it then is to the second)
InUse(o) == \E h \in ByPageGens : pc[h] # "absent" /\ cursor[h] = o

byPageWith(g, o, t, m) ==
  /\ pc[g] = "absent"
  /\ cursor' = [cursor EXCEPT ![g] = o]
  /\ settings' = IF InUse(o) THEN settings
                 ELSE [settings EXCEPT ![o] = [continuationToken |-> t, maxPageSize |-> m]]
  /\ startTok' = [startTok EXCEPT ![g] = settings'[o].continuationToken]
  /\ hint' = [hint EXCEPT ![g] = settings'[o].maxPageSize]
  /\ pc' = [pc EXCEPT ![g] = "start"]
  /\ UNCHANGED <<serverVars, lroVars, clientVars, shapeVars, failVars, inflight, reqs, lastResp, pending, pagesOut, ended,
                 allVars, handleAt, outstanding>>

\* "p1" names the iterator of the first byPage call, "p2" that of the second
byPage(g) ==
  /\ g = "p2" => pc["p1"] # "absent"
  /\ \E o \in {OwnObj(g), "s"} : \E t \in StartTokens, m \in Sizes : byPageWith(g, o, t, m)

\* byPage() with no argument: settings = {}
byPageDefault(g) == byPageWith(g, OwnObj(g), Null, NoMax)

\* the consumer calls next() on a byPage iterator
PageNext(g) ==
  /\ pc[g] # "absent"
  /\ pending[g] < MaxPending
  /\ pending' = [pending EXCEPT ![g] = @ + 1]
  /\ UNCHANGED <<serverVars, lroVars, clientVars, shapeVars, failVars, settings, pc, cursor, startTok, hint, inflight, reqs,
                 lastResp, pagesOut, ended, allVars, handleAt, outstanding>>

\* a queued next() starts or resumes the generator
PageResume(g) ==
  /\ Suspended(g)
  /\ pending[g] > 0
  /\ LET st == ResumeStep(g)
     IN /\ Apply(g, st, 0)
        /\ pending' = [pending EXCEPT ![g] = IF st.ev = "done" THEN @ - 1 ELSE @]
        /\ ended' = [ended EXCEPT ![g] = @ \/ st.ev = "done"]
  /\ UNCHANGED <<serverVars, lroVars, clientVars, shapeVars, failVars, settings, cursor, startTok, hint, lastResp, pagesOut,
                 allVars, handleAt>>

\* the response to the request in flight arrives
PageResponse(g) ==
  /\ Awaiting(g)
  /\ ~MapThrows(inflight[g].url)
  /\ LET st == ResponseStep(g)
     IN /\ Apply(g, st, 1)
        /\ StoreToken(g)
        /\ pagesOut' = [pagesOut EXCEPT ![g] =
              IF st.ev = "yield" THEN Append(@, MapPage(Value(inflight[g].url))) ELSE @]
        /\ pending' = [pending EXCEPT ![g] =
              IF st.ev \in {"yield", "done"} THEN @ - 1 ELSE @]
        /\ ended' = [ended EXCEPT ![g] = @ \/ st.ev = "done"]
  /\ UNCHANGED <<serverVars, lroVars, clientVars, shapeVars, failVars, cursor, startTok, hint, allVars, handleAt>>

\* next() on a finished generator resolves with done
PageDrain(g) ==
  /\ pc[g] = "done"
  /\ pending[g] > 0
  /\ pending' = [pending EXCEPT ![g] = @ - 1]
  /\ ended' = [ended EXCEPT ![g] = TRUE]
  /\ UNCHANGED <<serverVars, lroVars, clientVars, shapeVars, failVars, settings, pc, cursor, startTok, hint, inflight, reqs,
                 lastResp, pagesOut, allVars, handleAt, outstanding>>

(* ------------------------- a step that throws ------------------------- *)
\* the errors a rejected service call carries
FetchErrors == {"notfound", "error"}
Failed == 0 - 3   \* lastResp: the service answered with an error

\* variant: the token is cleared when the awaited call rejects
RejectStepClearToken(g) == [ev |-> "throw", pc |-> "done", req |-> NoReq, token |-> Null]

\* await this.client.getSecrets(...) rejects: nothing catches the error, so
\* the generator ends before the assignment to continuationToken
RejectStep(g) == [ev |-> "throw", pc |-> "done", req |-> NoReq, token |-> Token(g)]

\* the error leaves the generator: the next() in progress rejects with it
Throw(g, err) ==
  /\ thrown' = [thrown EXCEPT ![g] = err]
  /\ pending' = [pending EXCEPT ![g] = IF g \in ByPageGens THEN @ - 1 ELSE @]

\* the service rejects the request in flight
PageFail(g) ==
  /\ Awaiting(g)
  /\ \E err \in FetchErrors :
       LET st == RejectStep(g)
       IN /\ Apply(g, st, 1)
          /\ settings' = [settings EXCEPT ![cursor[g]].continuationToken = st.token]
          /\ lastResp' = [lastResp EXCEPT ![g] = Failed]
          /\ Throw(g, err)
  /\ UNCHANGED <<serverVars, lroVars, clientVars, shapeVars, cursor, startTok, hint,
                 pagesOut, ended, allVars, handleAt, thrownAll>>

\* the response arrives and shaping one of its bundles throws: the token
\* has been overwritten, no page is yielded
PageShapeFail(g) ==
  /\ Awaiting(g)
  /\ MapThrows(inflight[g].url)
  /\ Apply(g, [ev |-> "throw", pc |-> "done", req |-> NoReq], 1)
  /\ StoreToken(g)
  /\ Throw(g, "TypeError")
  /\ UNCHANGED <<serverVars, lroVars, clientVars, shapeVars, cursor, startTok, hint,
                 pagesOut, ended, allVars, handleAt, thrownAll>>

\* for await (const page of ...Page(f, options)): an error of "f" leaves
\* ...All as it came, and the next() in progress on the list result rejects
AllThrow(err) ==
  /\ thrownAll' = err
  /\ pcAll' = "done"
  /\ pendingAll' = pendingAll - 1
  /\ UNCHANGED <<curPage, itemsOut, endedAll>>

\* the service rejects the request of "f"
AllFail ==
  /\ pcAll = "waitPage"
  /\ Awaiting("f")
  /\ \E err \in FetchErrors :
       LET st == RejectStep("f")
       IN /\ Apply("f", st, 1)
          /\ settings' = [settings EXCEPT ![cursor["f"]].continuationToken = st.token]
          /\ lastResp' = [lastResp EXCEPT !["f"] = Failed]
          /\ Throw("f", err)
          /\ AllThrow(err)
  /\ UNCHANGED <<serverVars, lroVars, clientVars, shapeVars, cursor, startTok, hint,
                 pagesOut, ended, handleAt>>

\* the response to the request of "f" arrives and shaping a bundle throws
AllShapeFail ==
  /\ pcAll = "waitPage"
  /\ Awaiting("f")
  /\ MapThrows(inflight["f"].url)
  /\ Apply("f", [ev |-> "throw", pc |-> "done", req |-> NoReq], 1)
  /\ StoreToken("f")
  /\ Throw("f", "TypeError")
  /\ AllThrow("TypeError")
  /\ UNCHANGED <<serverVars, lroVars, clientVars, shapeVars, cursor, startTok, hint,
                 pagesOut, ended, handleAt>>

(* --------------------- the list result (...All) ----------------------- *)
\* next() { return iter.next(); }
AllNext ==
  /\ pendingAll < MaxPending
  /\ pendingAll' = pendingAll + 1
  /\ UNCHANGED <<serverVars, lroVars, clientVars, shapeVars, failVars, settings, pc, cursor, startTok, hint, inflight, reqs,
                 lastResp, pending, pagesOut, ended, pcAll, curPage, itemsOut,
                 endedAll, handleAt, outstanding>>

\* variant: [Symbol.asyncIterator]() returns a new ...All generator
asyncIteratorRestart ==
  /\ handleAt # Len(itemsOut)
  /\ handleAt' = Len(itemsOut)
  /\ pcAll # "waitPage"
  /\ pendingAll = 0
  /\ pcAll' = "start"
  /\ curPage' = <<>>
  /\ pc' = [pc EXCEPT !["f"] = "start"]
  /\ settings' = [settings EXCEPT !["f"].continuationToken = Null]
  /\ UNCHANGED <<serverVars, lroVars, clientVars, shapeVars, failVars, cursor, startTok, hint, inflight, reqs, lastResp,
                 pending, pagesOut, ended, pendingAll, itemsOut, endedAll, outstanding>>

\* [Symbol.asyncIterator]() { return this; }
asyncIterator ==
  /\ handleAt # Len(itemsOut)
  /\ handleAt' = Len(itemsOut)
  /\ UNCHANGED <<serverVars, lroVars, clientVars, shapeVars, failVars, settings, pc, cursor, startTok, hint, inflight, reqs,
                 lastResp, pending, pagesOut, ended, allVars, outstanding>>

\* variant: the first item of a page is yielded and stays in the page
AllAfterDup(st, page) ==
  IF st.ev = "fetch"
    THEN /\ pcAll' = "waitPage"
         /\ UNCHANGED <<pendingAll, curPage, itemsOut, endedAll>>
  ELSE IF st.ev = "done"
    THEN /\ pcAll' = "done"
         /\ pendingAll' = pendingAll - 1
         /\ endedAll' = TRUE
         /\ UNCHANGED <<curPage, itemsOut>>
  ELSE   /\ pcAll' = "yielded"
         /\ pendingAll' = pendingAll - 1
         /\ itemsOut' = Append(itemsOut, Head(page))
         /\ curPage' = page
         /\ UNCHANGED endedAll

\* variant: only the first item of a page is yielded
AllAfterDropRest(st, page) ==
  IF st.ev = "fetch"
    THEN /\ pcAll' = "waitPage"
         /\ UNCHANGED <<pendingAll, curPage, itemsOut, endedAll>>
  ELSE IF st.ev = "done"
    THEN /\ pcAll' = "done"
         /\ pendingAll' = pendingAll - 1
         /\ endedAll' = TRUE
         /\ UNCHANGED <<curPage, itemsOut>>
  ELSE   /\ pcAll' = "yielded"
         /\ pendingAll' = pendingAll - 1
         /\ itemsOut' = Append(itemsOut, Head(page))
         /\ curPage' = <<>>
         /\ UNCHANGED endedAll

\* for await (const page of ...Page(f, options)): what ...All does once the
\* page generator "f" has taken step st
AllAfter(st, page) ==
  IF st.ev = "fetch"
    THEN /\ pcAll' = "waitPage"
         /\ UNCHANGED <<pendingAll, curPage, itemsOut, endedAll>>
  ELSE IF st.ev = "done"
    THEN /\ pcAll' = "done"
         /\ pendingAll' = pendingAll - 1
         /\ endedAll' = TRUE
         /\ UNCHANGED <<curPage, itemsOut>>
  ELSE   \* a non-empty page: yield its first item
         /\ pcAll' = "yielded"
         /\ pendingAll' = pendingAll - 1
         /\ itemsOut' = Append(itemsOut, Head(page))
         /\ curPage' = Tail(page)
         /\ UNCHANGED endedAll

\* variant: next() resumes ...All also while it awaits a page
AllSuspendedAwaiting == pcAll \in {"start", "yielded", "waitPage"}

\* ...All is resumed by next() only before its first statement or at its yield
AllSuspended == pcAll \in {"start", "yielded"}

\* variant: the loop ends one item early
PageExhaustedEarly == Len(curPage) <= 1

\* for (const item of page): the loop ends when every item has been yielded
PageExhausted == curPage = <<>>

\* a queued next() starts ...All, or resumes it after a yield
AllResume ==
  /\ AllSuspended
  /\ pendingAll > 0
  /\ IF ~PageExhausted
       THEN \* for (const item of page) yield item
            /\ itemsOut' = Append(itemsOut, Head(curPage))
            /\ curPage' = Tail(curPage)
            /\ pendingAll' = pendingAll - 1
            /\ UNCHANGED <<pcAll, endedAll, pc, inflight, reqs, outstanding>>
       ELSE \* the page is exhausted: ask "f" for the next one
            LET st == ResumeStep("f")
            IN /\ Apply("f", st, 0)
               /\ AllAfter(st, <<>>)
  /\ UNCHANGED <<serverVars, lroVars, clientVars, shapeVars, failVars, settings, cursor, startTok, hint, lastResp, pending,
                 pagesOut, ended, handleAt>>

\* the response to the request of "f" arrives
AllResponse ==
  /\ pcAll = "waitPage"
  /\ Awaiting("f")
  /\ ~MapThrows(inflight["f"].url)
  /\ StoreToken("f")
  /\ LET st   == ResponseStep("f")
         page == MapPage(Value(inflight["f"].url))
     IN IF st.ev = "yield" /\ page = <<>>
          THEN \* an empty page: the for-of ends at once and "f" is resumed
               LET st2 == WhileStep("f", NewToken("f"))
               IN /\ Apply("f", st2, 1)
                  /\ AllAfter(st2, <<>>)
                  /\ pagesOut' = [pagesOut EXCEPT !["f"] = Append(@, page)]
          ELSE /\ Apply("f", st, 1)
               /\ AllAfter(st, page)
               /\ pagesOut' = [pagesOut EXCEPT !["f"] =
                     IF st.ev = "yield" THEN Append(@, page) ELSE @]
  /\ UNCHANGED <<serverVars, lroVars, clientVars, shapeVars, failVars, cursor, startTok, hint, pending, ended, handleAt>>

\* next() on the finished list result resolves with done
AllDrain ==
  /\ pcAll = "done"
  /\ pendingAll > 0
  /\ pendingAll' = pendingAll - 1
  /\ endedAll' = TRUE
  /\ UNCHANGED <<serverVars, lroVars, clientVars, shapeVars, failVars, settings, pc, cursor, startTok, hint, inflight, reqs,
                 lastResp, pending, pagesOut, ended, pcAll, curPage, itemsOut, handleAt,
                 outstanding>>

(* ------------------- delete / recover poller -------------------------- *)
Terminal == status \in {"Succeeded", "Failed"}

\* the private client methods the poller is given: the service call is
\* awaited inside try/finally (the span ends either way), so an error of the
\* service leaves the method as it came; a response is shaped and returned
deleteSecretSwallow(outcome) == [threw |-> FALSE, err |-> "none", value |-> "target"]
deleteSecret(outcome) ==
  IF outcome = "ok" THEN [threw |-> FALSE, err |-> "none", value |-> "target"]
  ELSE [threw |-> TRUE, err |-> outcome, value |-> "none"]
recoverDeletedSecret(outcome) ==
  IF outcome = "ok" THEN [threw |-> FALSE, err |-> "none", value |-> "target"]
  ELSE [threw |-> TRUE, err |-> outcome, value |-> "none"]
getDeletedSecretSwallow(outcome) == [threw |-> FALSE, err |-> "none", value |-> "target"]
getDeletedSecret(outcome) ==
  IF outcome = "ok" THEN [threw |-> FALSE, err |-> "none", value |-> "target"]
  ELSE [threw |-> TRUE, err |-> outcome, value |-> "none"]
getSecret(outcome) ==
  IF outcome = "ok" THEN [threw |-> FALSE, err |-> "none", value |-> "target"]
  ELSE [threw |-> TRUE, err |-> outcome, value |-> "none"]

\* pollerClient: each name the poller calls is bound to the client method of
\* that name
pollerClientRebound(method) ==
  IF method = "getDeletedSecret" THEN "deleteSecret"
  ELSE IF method = "getSecret" THEN "recoverDeletedSecret" ELSE method
pollerClient(method) == method

\* what the method of that name makes of the service's answer
ClientSettle(method, outcome) ==
  IF method = "deleteSecret" THEN deleteSecret(outcome)
  ELSE IF method = "recoverDeletedSecret" THEN recoverDeletedSecret(outcome)
  ELSE IF method = "getDeletedSecret" THEN getDeletedSecret(outcome)
  ELSE getSecret(outcome)

StartOps == {"deleteSecret", "recoverDeletedSecret"}
ProbeOps == {"getDeletedSecret", "getSecret"}

\* the method a poller of kind k calls: the delete or recover request from
\* NotStarted, afterwards a get of the deleted secret (delete poller) or of
\* the live secret (recover poller)
PollerMethod(k, st) ==
  IF st = "NotStarted"
    THEN (IF k = "delete" THEN "deleteSecret" ELSE "recoverDeletedSecret")
  ELSE (IF k = "delete" THEN "getDeletedSecret" ELSE "getSecret")

\* poll() of a poller of kind k in state st: nothing is sent once the poller
\* is terminal; a poll() made while a request is in flight waits for that
\* request; otherwise one request is sent
PollCallAlways(k, st) ==
  /\ pollNet' = pollNet + 1
  /\ pollKind' = IF st = "NotStarted" THEN "start" ELSE "probe"
  /\ pollOp' = pollerClient(PollerMethod(k, st))
  /\ starts' = starts + (IF pollerClient(PollerMethod(k, st)) \in StartOps THEN 1 ELSE 0)
  /\ trips' = 1
  /\ pollPending' = pollPending + 1
PollCallAt(k, st) ==
  IF st \in {"Succeeded", "Failed"}
    THEN UNCHANGED <<pollNet, pollKind, pollOp, starts, trips, pollPending>>
  ELSE IF pollNet > 0
    THEN /\ pollPending' = pollPending + 1
         /\ UNCHANGED <<pollNet, pollKind, pollOp, starts, trips>>
  ELSE /\ pollNet' = pollNet + 1
       /\ pollKind' = IF st = "NotStarted" THEN "start" ELSE "probe"
       /\ pollOp' = pollerClient(PollerMethod(k, st))
       /\ starts' = starts + (IF pollerClient(PollerMethod(k, st)) \in StartOps THEN 1 ELSE 0)
       /\ trips' = 1
       /\ pollPending' = pollPending + 1

PollCall == PollCallAt(kind, status)

\* const poller = new DeleteSecretPoller(...); poller.poll(); return poller
beginDeleteSecretNoAwait ==
  /\ beginPc = "idle"
  /\ beginPc' = "returned"
  /\ kind' = "delete"
  /\ PollCallAt("delete", status)
  /\ UNCHANGED <<status, svc, lastAnswer, raised, result, udPc, resumedAt, pagingVars, clientVars,
                 shapeVars>>
\* const poller = new DeleteSecretPoller(...); await poller.poll(); return poller
beginDeleteSecret ==
  /\ beginPc = "idle"
  /\ beginPc' = "polling"
  /\ kind' = "delete"
  /\ PollCallAt("delete", status)
  /\ UNCHANGED <<status, svc, lastAnswer, raised, result, udPc, resumedAt, pagingVars, clientVars,
                 shapeVars>>

\* const poller = new RecoverDeletedSecretPoller(...); await poller.poll();
\* return poller
beginRecoverDeletedSecret ==
  /\ beginPc = "idle"
  /\ beginPc' = "polling"
  /\ kind' = "recover"
  /\ PollCallAt("recover", status)
  /\ UNCHANGED <<status, svc, lastAnswer, raised, result, udPc, resumedAt, pagingVars, clientVars,
                 shapeVars>>

\* the caller polls the poller it was given
poll ==
  /\ beginPc = "returned"
  /\ pollPending < MaxPending
  /\ PollCall
  /\ UNCHANGED <<status, beginPc, kind, svc, lastAnswer, raised, result, udPc,
                 resumedAt, pagingVars, clientVars,
                 shapeVars>>

\* the answers the service can give: the delete or recover request is
\* accepted, meets no such secret, or fails; a get finds the target once it
\* is observable, does not find it before, or fails
ServiceOutcomes(op) ==
  IF op \in StartOps THEN {"ok", "notfound", "error"}
  ELSE IF svc = "ready" THEN {"ok", "error"}
  ELSE {"notfound", "error"}

\* the new poller state after the client method settled with r
StatusAfter(req, r) ==
  IF req = "start" THEN (IF r.threw THEN status ELSE "InProgress")
  ELSE IF ~r.threw THEN "Succeeded"
  ELSE IF r.err = "notfound" THEN "InProgress"
  ELSE "Failed"

\* what poll() delivers to its callers: a not-found of the probe is not an
\* error, every other error is rethrown as it is
RaisedAfter(req, r) ==
  IF ~r.threw THEN "none"
  ELSE IF req = "probe" /\ r.err = "notfound" THEN "none"
  ELSE r.err

\* the service answers the request in flight, the client method settles and
\* the poll() calls waiting for it settle with it
PollResponseChained ==
  /\ pollNet > 0
  /\ \E outcome \in ServiceOutcomes(pollOp) :
       /\ lastAnswer' = [req |-> pollKind, op |-> pollOp, outcome |-> outcome]
       /\ svc' = IF pollOp \in StartOps /\ outcome = "ok" /\ svc = "before"
                   THEN "pending" ELSE svc
       /\ IF pollKind = "start" /\ outcome = "ok"
            THEN /\ status' = "InProgress"
                 /\ pollKind' = "probe"
                 /\ pollOp' = pollerClient(PollerMethod(kind, "InProgress"))
                 /\ trips' = trips + 1
                 /\ UNCHANGED <<pollNet, pollPending, raised, result, beginPc, udPc>>
            ELSE /\ status' = StatusAfter(pollKind, ClientSettle(pollOp, outcome))
                 /\ raised' = RaisedAfter(pollKind, ClientSettle(pollOp, outcome))
                 /\ result' = IF StatusAfter(pollKind, ClientSettle(pollOp, outcome)) = "Succeeded"
                                THEN ClientSettle(pollOp, outcome).value ELSE result
                 /\ beginPc' = IF beginPc # "polling" THEN beginPc
                               ELSE IF RaisedAfter(pollKind, ClientSettle(pollOp, outcome)) = "none"
                                 THEN "returned" ELSE "rejected"
                 /\ udPc' = IF udPc # "waiting" THEN udPc
                            ELSE IF RaisedAfter(pollKind, ClientSettle(pollOp, outcome)) = "none"
                              THEN "loop" ELSE "rejected"
                 /\ pollNet' = pollNet - 1
                 /\ pollKind' = "none"
                 /\ pollOp' = "none"
                 /\ trips' = 0
                 /\ pollPending' = 0
  /\ UNCHANGED <<kind, starts, resumedAt, pagingVars, clientVars,
                 shapeVars>>
PollResponse ==
  /\ pollNet > 0
  /\ \E outcome \in ServiceOutcomes(pollOp) :
       /\ lastAnswer' = [req |-> pollKind, op |-> pollOp, outcome |-> outcome]
       /\ svc' = IF pollOp \in StartOps /\ outcome = "ok" /\ svc = "before"
                   THEN "pending" ELSE svc
       /\ status' = StatusAfter(pollKind, ClientSettle(pollOp, outcome))
       /\ raised' = RaisedAfter(pollKind, ClientSettle(pollOp, outcome))
       /\ result' = IF StatusAfter(pollKind, ClientSettle(pollOp, outcome)) = "Succeeded"
                      THEN ClientSettle(pollOp, outcome).value ELSE result
       /\ beginPc' = IF beginPc # "polling" THEN beginPc
                     ELSE IF RaisedAfter(pollKind, ClientSettle(pollOp, outcome)) = "none"
                       THEN "returned" ELSE "rejected"
       /\ udPc' = IF udPc # "waiting" THEN udPc
                  ELSE IF RaisedAfter(pollKind, ClientSettle(pollOp, outcome)) = "none"
                    THEN "loop" ELSE "rejected"
  /\ pollNet' = pollNet - 1
  /\ pollKind' = "none"
  /\ pollOp' = "none"
  /\ trips' = 0
  /\ pollPending' = 0
  /\ UNCHANGED <<kind, starts, resumedAt, pagingVars, clientVars,
                 shapeVars>>

\* the service completes the operation it accepted: the target becomes
\* observable in the expected state
Propagate ==
  /\ svc = "pending"
  /\ svc' = "ready"
  /\ UNCHANGED <<status, beginPc, pollNet, pollKind, pollPending, kind, pollOp, starts,
                 trips, lastAnswer, raised, result, udPc, resumedAt, pagingVars, clientVars,
                 shapeVars>>

\* pollUntilDone(): poll, wait, and poll again until the poller is terminal
pollUntilDone ==
  /\ beginPc = "returned"
  /\ udPc = "idle"
  /\ udPc' = "loop"
  /\ UNCHANGED <<status, beginPc, pollNet, pollKind, pollPending, kind, svc, pollOp,
                 starts, trips, lastAnswer, raised, result, resumedAt, pagingVars, clientVars,
                 shapeVars>>

UntilDoneStepEager ==
  /\ udPc = "loop"
  /\ IF status # "NotStarted"
       THEN /\ udPc' = IF status = "Failed" THEN "rejected" ELSE "returned"
            /\ UNCHANGED <<pollNet, pollKind, pollOp, starts, trips, pollPending>>
       ELSE /\ udPc' = "waiting"
            /\ PollCall
  /\ UNCHANGED <<status, beginPc, kind, svc, lastAnswer, raised, result, resumedAt,
                 pagingVars, clientVars,
                 shapeVars>>
UntilDoneStep ==
  /\ udPc = "loop"
  /\ IF Terminal
       THEN /\ udPc' = IF status = "Succeeded" THEN "returned" ELSE "rejected"
            /\ UNCHANGED <<pollNet, pollKind, pollOp, starts, trips, pollPending>>
       ELSE /\ udPc' = "waiting"
            /\ PollCall
  /\ UNCHANGED <<status, beginPc, kind, svc, lastAnswer, raised, result, resumedAt,
                 pagingVars, clientVars,
                 shapeVars>>

\* the token of a poller: its resource name and its status
toJSON == [resourceName |-> "name", status |-> status]
\* the status of a poller rebuilt from a token
FromToken(token) == token.status

\* the process restarts while no call on the poller is in progress, and
\* begin... is called with the token of the old poller
\* begin...(name, { resumeFrom }): the options, resumeFrom among them, are
\* passed on to the poller, which is polled once and returned
resumeFromIgnored ==
  /\ beginPc = "returned"
  /\ pollNet = 0
  /\ udPc \notin {"loop", "waiting"}
  /\ resumedAt = "none"
  /\ resumedAt' = toJSON.status
  /\ status' = "NotStarted"
  /\ result' = "none"
  /\ udPc' = "idle"
  /\ PollCallAt(kind, "NotStarted")
  /\ beginPc' = "polling"
  /\ UNCHANGED <<kind, svc, lastAnswer, raised, pagingVars, clientVars,
                 shapeVars>>
resumeFrom ==
  /\ beginPc = "returned"
  /\ pollNet = 0
  /\ udPc \notin {"loop", "waiting"}
  /\ resumedAt = "none"
  /\ resumedAt' = toJSON.status
  /\ status' = FromToken(toJSON)
  /\ result' = "none"
  /\ udPc' = "idle"
  /\ PollCallAt(kind, FromToken(toJSON))
  /\ beginPc' = IF FromToken(toJSON) \in {"Succeeded", "Failed"} THEN "returned" ELSE "polling"
  /\ UNCHANGED <<kind, svc, lastAnswer, raised, pagingVars, clientVars,
                 shapeVars>>

(* ------------------------ generated clients --------------------------- *)
BearerName == "bearerTokenAuthenticationPolicy"
CustomName == "CustomApiVersionPolicy"
NoPipeline == <<[name |-> "none", credential |-> Undefined, apiVersion |-> Undefined]>>
NoUrl == [path |-> "none", hasQuery |-> FALSE, items |-> <<>>, more |-> FALSE]
NoClient ==
  [state |-> "none", which |-> "none", credentials |-> Undefined,
   subscriptionId |-> Undefined, apiVersion |-> Undefined, pipeline |-> NoPipeline]
NoOptions == [given |-> FALSE, apiVersion |-> Undefined, pipeline |-> "absent",
              credentialScopes |-> FALSE]

Policy(n, c, v) == [name |-> n, credential |-> c, apiVersion |-> v]

\* the policies of the pipeline object the caller passes in options.pipeline
CallerPipeline(shape) ==
  IF shape = "bearer" THEN <<Policy(BearerName, "callerCredential", Undefined)>>
  ELSE IF shape = "nobearer" THEN <<Policy("callerPolicy", Undefined, Undefined)>>
  ELSE <<>>

RemovePolicy(pipeline, n) == SelectSeq(pipeline, LAMBDA p : p.name # n)

\* super(optionsWithDefaults): the pipeline the caller gave, or a new one
\* with the bearer policy of optionsWithDefaults.credential
ServiceClient(credential, options) ==
  IF options.pipeline # "absent" THEN CallerPipeline(options.pipeline)
  ELSE <<Policy(BearerName, credential, Undefined)>>

\* a query item is name, or name=value; names and values that hold the text
\* api-version
ContainsApiVersion(s) == s \in {"api-version", "x-api-version", "has-api-version"}
ItemMatches(item) ==
  ContainsApiVersion(item.name) \/ (item.eq /\ ContainsApiVersion(item.value))

\* WorkloadsClient: item.replace(/(?<==).*$/, apiVersion), all that follows
\* the first "=" is replaced; an item without "=" has no match
WorkloadsItem(item, apiVersion) ==
  IF ItemMatches(item) /\ item.eq THEN [item EXCEPT !.value = apiVersion] ELSE item

\* PaloAltoNetworksCloudngfw: "api-version=" + apiVersion
PaloAltoItem(item, apiVersion) ==
  IF ItemMatches(item) THEN [name |-> "api-version", eq |-> TRUE, value |-> apiVersion]
  ELSE item

\* sendRequest of the CustomApiVersionPolicy: url.split("?") keeps the path
\* and the first query segment only
ApiVersionPolicy(which, apiVersion, url) ==
  IF ~url.hasQuery THEN url
  ELSE [url EXCEPT
          !.items = [i \in 1..Len(url.items) |->
                       IF which = "Workloads" THEN WorkloadsItem(url.items[i], apiVersion)
                       ELSE PaloAltoItem(url.items[i], apiVersion)],
          !.more = FALSE]

\* addCustomApiVersionPolicy(apiVersion): no policy is added when the
\* argument is undefined or empty
addCustomApiVersionPolicy(pipeline, apiVersion, default) ==
  IF apiVersion = Undefined THEN pipeline
  ELSE Append(pipeline, Policy(CustomName, Undefined, apiVersion))

WorkloadsDefault == "2021-12-01-preview"
PaloAltoDefault == "2022-08-29"

\* new WorkloadsClient(credentials, subscriptionId, options)
WorkloadsPipeline(credentials, options) ==
  IF options.pipeline \in {"nobearer"}
    THEN Append(RemovePolicy(ServiceClient(credentials, options), BearerName),
                Policy(BearerName, Undefined, Undefined))
  ELSE ServiceClient(credentials, options)
WorkloadsClient(credentials, subscriptionId, options) ==
  IF credentials = Undefined \/ subscriptionId = Undefined
    THEN [NoClient EXCEPT !.state = "threw", !.which = "Workloads",
                          !.credentials = credentials, !.subscriptionId = subscriptionId]
  ELSE [state |-> "built", which |-> "Workloads", credentials |-> credentials,
        subscriptionId |-> subscriptionId,
        apiVersion |-> IF options.apiVersion = Undefined THEN WorkloadsDefault
                       ELSE options.apiVersion,
        pipeline |-> addCustomApiVersionPolicy(WorkloadsPipeline(credentials, options),
                                               options.apiVersion, WorkloadsDefault)]

\* the caller's options object after the constructor: credentialScopes is
\* set on it when it had none
WorkloadsOptionsAfter(credentials, subscriptionId, options) ==
  IF credentials = Undefined \/ subscriptionId = Undefined \/ ~options.given THEN options
  ELSE [options EXCEPT !.credentialScopes = TRUE]

\* new PaloAltoNetworksCloudngfw(credentials, subscriptionId, options)
PaloAltoPipeline(credentials, options) ==
  IF options.pipeline \in {"absent", "empty", "nobearer"}
    THEN Append(RemovePolicy(ServiceClient(credentials, options), BearerName),
                Policy(BearerName, credentials, Undefined))
  ELSE ServiceClient(credentials, options)
PaloAltoNetworksCloudngfw(credentials, subscriptionId, options) ==
  IF credentials = Undefined
    THEN [NoClient EXCEPT !.state = "threw", !.which = "PaloAlto",
                          !.credentials = credentials, !.subscriptionId = subscriptionId]
  ELSE [state |-> "built", which |-> "PaloAlto", credentials |-> credentials,
        subscriptionId |-> subscriptionId,
        apiVersion |-> IF options.apiVersion = Undefined THEN PaloAltoDefault
                       ELSE options.apiVersion,
        pipeline |-> addCustomApiVersionPolicy(PaloAltoPipeline(credentials, options),
                                               options.apiVersion, PaloAltoDefault)]

\* the inputs of a constructor call
Credentials == {Undefined, NullValue, "credential"}
SubscriptionIds == {Undefined, NullValue, "subscription"}
OptionsSet ==
  {NoOptions} \cup
  [given : {TRUE}, apiVersion : {Undefined, "2023-01-01"},
   pipeline : {"absent", "empty", "nobearer", "bearer"}, credentialScopes : BOOLEAN]

newWorkloadsClient ==
  /\ client.state = "none"
  /\ \E c \in Credentials, s \in SubscriptionIds, o \in OptionsSet :
       /\ client' = WorkloadsClient(c, s, o)
       /\ callerOptions' = WorkloadsOptionsAfter(c, s, o)
       /\ givenOptions' = o
  /\ UNCHANGED <<request, pagingVars, lroVars, shapeVars>>

newPaloAltoNetworksCloudngfw ==
  /\ client.state = "none"
  /\ \E c \in Credentials, s \in SubscriptionIds, o \in OptionsSet :
       /\ client' = PaloAltoNetworksCloudngfw(c, s, o)
       /\ callerOptions' = o
       /\ givenOptions' = o
  /\ UNCHANGED <<request, pagingVars, lroVars, shapeVars>>

\* the URL the pipeline hands to the stage after the client's policies
RECURSIVE RunPolicies(_, _, _)
RunPolicies(which, pipeline, url) ==
  IF pipeline = <<>> THEN url
  ELSE RunPolicies(which, Tail(pipeline),
                   IF Head(pipeline).name = CustomName
                     THEN ApiVersionPolicy(which, Head(pipeline).apiVersion, url)
                     ELSE url)

\* the request URLs: a path, and possibly "?" and query items, and possibly
\* a further "?" and more text
ItemNames == {"api-version", "x-api-version", "filter"}
ItemValues == {"2020-01-01", "has-api-version"}
Items ==
  [name : ItemNames, eq : {TRUE}, value : ItemValues]
    \cup [name : ItemNames, eq : {FALSE}, value : {""}]
Queries == UNION {[1..n -> Items] : n \in 0..MaxItems}
Urls ==
  {[path |-> "/resource", hasQuery |-> FALSE, items |-> <<>>, more |-> FALSE]}
    \cup [path : {"/resource"}, hasQuery : {TRUE}, items : Queries, more : BOOLEAN]

\* a request is sent through the client's pipeline (the policies keep no
\* state from one request to the next: one request is followed)
sendRequest ==
  /\ client.state = "built"
  /\ request.forwarded = 0
  /\ \E url \in Urls :
       request' = [url |-> url,
                   next |-> RunPolicies(client.which, client.pipeline, url),
                   forwarded |-> 1]
  /\ UNCHANGED <<client, callerOptions, givenOptions, pagingVars, lroVars, shapeVars>>

(* --------------------------- result shaping --------------------------- *)

\* a response bundle is shaped
ShapeBundle ==
  /\ shaped.state = "none"
  /\ \E b \in Bundles :
       /\ given' = b
       /\ shaped' = getSecretFromSecretBundle(b)
       /\ bundleObj' = BundleAfter(b)
  /\ UNCHANGED <<pagingVars, lroVars, clientVars>>

(* --------------------------- specification ---------------------------- *)
PageShapes == (0 - 1)..MaxPageLen
Servers == UNION {[1..n -> PageShapes] : n \in 1..MaxPages}

InitOn(b) ==
  /\ pages \in Servers
  /\ bare = b
  /\ thrown = [g \in PageGens |-> "none"]
  /\ thrownAll = "none"
  /\ settings = [o \in Objs |-> [continuationToken |-> Null, maxPageSize |-> NoMax]]
  /\ pc = [g \in PageGens |-> IF g = "f" THEN "start" ELSE "absent"]
  /\ cursor = [g \in PageGens |-> IF g = "f" THEN "f" ELSE OwnObj(g)]
  /\ startTok = [g \in PageGens |-> Null]
  /\ hint = [g \in PageGens |-> NoMax]
  /\ inflight = [g \in PageGens |-> NoReq]
  /\ reqs = [g \in PageGens |-> <<>>]
  /\ lastResp = [g \in PageGens |-> NoResp]
  /\ pending = [g \in PageGens |-> 0]
  /\ pagesOut = [g \in PageGens |-> <<>>]
  /\ ended = [g \in PageGens |-> FALSE]
  /\ pcAll = "start"
  /\ pendingAll = 0
  /\ curPage = <<>>
  /\ itemsOut = <<>>
  /\ endedAll = FALSE
  /\ handleAt = 0 - 1
  /\ outstanding = [g \in PageGens |-> 0]
  /\ status = "NotStarted"
  /\ beginPc = "idle"
  /\ pollNet = 0
  /\ pollKind = "none"
  /\ pollPending = 0
  /\ kind = "none"
  /\ svc = "before"
  /\ pollOp = "none"
  /\ starts = 0
  /\ trips = 0
  /\ lastAnswer = [req |-> "none", op |-> "none", outcome |-> "none"]
  /\ raised = "none"
  /\ result = "none"
  /\ udPc = "idle"
  /\ resumedAt = "none"
  /\ client = NoClient
  /\ callerOptions = NoOptions
  /\ givenOptions = NoOptions
  /\ request = [url |-> NoUrl, next |-> NoUrl, forwarded |-> 0]
  /\ given = NoBundle
  /\ bundleObj = NoBundle
  /\ shaped = NotShaped

\* the bundles of a vault carry attributes
Init == InitOn(FALSE)

Next ==
  \/ \E g \in ByPageGens : byPage(g)
  \/ \E g \in ByPageGens : PageNext(g)
  \/ \E g \in ByPageGens : PageResume(g)
  \/ \E g \in ByPageGens : PageResponse(g)
  \/ \E g \in ByPageGens : PageDrain(g)
  \/ AllNext
  \/ asyncIterator
  \/ AllResume
  \/ AllResponse
  \/ AllDrain
  \/ \E g \in ByPageGens : PageFail(g)
  \/ \E g \in ByPageGens : PageShapeFail(g)
  \/ AllFail
  \/ AllShapeFail
  \/ beginDeleteSecret
  \/ beginRecoverDeletedSecret
  \/ poll
  \/ PollResponse
  \/ Propagate
  \/ pollUntilDone
  \/ UntilDoneStep
  \/ resumeFrom
  \/ newWorkloadsClient
  \/ newPaloAltoNetworksCloudngfw
  \/ sendRequest
  \/ ShapeBundle

Spec == Init /\ [][Next]_vars

\* the list result alone
NextAll == AllNext \/ asyncIterator \/ AllResume \/ AllResponse \/ AllDrain
SpecAll == Init /\ [][NextAll]_vars

\* the consumer iterates to completion, the event loop runs every ready
\* continuation and the transport answers every request
FairSpecAll ==
  SpecAll /\ WF_vars(AllNext) /\ WF_vars(AllResume) /\ WF_vars(AllResponse)
          /\ WF_vars(AllDrain)

\* the byPage iterators alone
NextPage ==
  \/ \E g \in ByPageGens : byPage(g)
  \/ \E g \in ByPageGens : PageNext(g)
  \/ \E g \in ByPageGens : PageResume(g)
  \/ \E g \in ByPageGens : PageResponse(g)
  \/ \E g \in ByPageGens : PageDrain(g)
\* a page generator does not look into the value array: for the byPage
\* iterators a page has either no value array or a value array of one item
InitPage == Init /\ \A p \in 1..NumPages : pages[p] \in {0 - 1, 1}
SpecPage == InitPage /\ [][NextPage]_vars

\* the list result next to one byPage() iterator of the same list operation
NextEquiv ==
  \/ AllNext \/ AllResume \/ AllResponse \/ AllDrain
  \/ byPageDefault("p1") \/ PageNext("p1") \/ PageResume("p1")
  \/ PageResponse("p1") \/ PageDrain("p1")
SpecEquiv == Init /\ [][NextEquiv]_vars

\* the list result next to both byPage iterators, on a chain of full pages
NextCursor ==
  \/ AllNext \/ AllResume \/ AllResponse \/ AllDrain
  \/ \E g \in ByPageGens : byPage(g)
  \/ \E g \in ByPageGens : PageNext(g)
  \/ \E g \in ByPageGens : PageResume(g)
  \/ \E g \in ByPageGens : PageResponse(g)
  \/ \E g \in ByPageGens : PageDrain(g)
InitCursor == Init /\ pages = <<1, 1>>
SpecCursor == InitCursor /\ [][NextCursor]_vars

\* the list result next to one byPage() iterator, on a service that may
\* reject a request
NextFail ==
  \/ AllNext \/ AllResume \/ AllResponse \/ AllDrain \/ AllFail
  \/ byPageDefault("p1") \/ PageNext("p1") \/ PageResume("p1")
  \/ PageResponse("p1") \/ PageDrain("p1") \/ PageFail("p1")
\* a rejected request carries no page: a page has here either no value array
\* or a value array of two items
InitFail == Init /\ \A p \in 1..NumPages : pages[p] \in {0 - 1, 2}
SpecFail == InitFail /\ [][NextFail]_vars

\* the list result of listDeletedSecrets, on a vault whose bundles carry
\* attributes or not
NextDeleted ==
  AllNext \/ AllResume \/ AllResponse \/ AllShapeFail \/ AllDrain
InitDeleted == \E b \in BOOLEAN : InitOn(b)
SpecDeleted == InitDeleted /\ [][NextDeleted]_vars

\* the list result next to a poller
NextSeq ==
  \/ AllNext \/ AllResume \/ AllResponse \/ AllDrain
  \/ beginDeleteSecret \/ poll \/ PollResponse
SpecSeq == Init /\ [][NextSeq]_vars

\* the pollers alone, on a vault whose list is a single empty page
NextLro ==
  \/ beginDeleteSecret
  \/ beginRecoverDeletedSecret
  \/ poll
  \/ PollResponse
  \/ Propagate
  \/ pollUntilDone
  \/ UntilDoneStep
  \/ resumeFrom
InitLro == Init /\ pages = <<0>>
SpecLro == InitLro /\ [][NextLro]_vars

\* a generated client alone
NextGen == newWorkloadsClient \/ newPaloAltoNetworksCloudngfw \/ sendRequest
SpecGen == InitLro /\ [][NextGen]_vars

\* result shaping alone
NextShape == ShapeBundle
SpecShape == InitLro /\ [][NextShape]_vars

\* the event loop runs every ready continuation, the transport answers every
\* request and the service completes the operation it accepted
FairSpecLro ==
  SpecLro /\ WF_vars(PollResponse) /\ WF_vars(Propagate) /\ WF_vars(UntilDoneStep)

(* ------------------------------ properties ---------------------------- *)
IsPrefix(a, b) == Len(a) <= Len(b) /\ a = SubSeq(b, 1, Len(a))

\* every item of the server, shaped, in server order
ExpectedItems == MapPage(ServerItemsFrom(1))

\* every page that has a nextLink also has a value array
LinkedPagesHaveValue == \A p \in 1..NumPages : NextLink(p) # Null => HasValue(p)

\* generator g sends a request in this step
Issued(g) == Len(reqs'[g]) > Len(reqs[g])

\* generator g receives a response in this step
Responded(g) == Awaiting(g) /\ pc'[g] # pc[g]

\* no other byPage iterator was given the settings object of g
Private(g) == \A h \in ByPageGens \ {g} : pc[h] = "absent" \/ cursor[h] # cursor[g]

\* the shaped pages from page p on: all of them, and those up to the first
\* page without a value array
RECURSIVE AllPagesFrom(_)
AllPagesFrom(p) ==
  IF p > NumPages THEN <<>>
  ELSE (IF HasValue(p) THEN <<MapPage(Value(p))>> ELSE <<>>) \o AllPagesFrom(p + 1)

RECURSIVE PagesUntilNoValue(_)
PagesUntilNoValue(p) ==
  IF p > NumPages \/ ~HasValue(p) THEN <<>>
  ELSE <<MapPage(Value(p))>> \o PagesUntilNoValue(p + 1)

\* C1 as stated: for any chain of pages, the list result iterated to its end
\* has yielded every server item exactly once, in server order.
C1_Original == pcAll = "done" => itemsOut = ExpectedItems

\* C1, amended: the iteration always ends; when every page that has a
\* nextLink also has a value array, what has been yielded is at every moment
\* a prefix of the server's items and at the end it is all of them, each
\* once, in server order.
C1_EveryItemOnce ==
  /\ <>(pcAll = "done")
  /\ [](LinkedPagesHaveValue =>
          /\ IsPrefix(itemsOut, ExpectedItems)
          /\ (pcAll = "done" => itemsOut = ExpectedItems))

C1_Witness ==
  /\ pcAll = "done"
  /\ LinkedPagesHaveValue
  /\ NumPages >= 3
  /\ Len(itemsOut) >= 4
  /\ itemsOut = ExpectedItems

\* C2: once the list result and a byPage() iterator with default settings
\* have both ended, the pages concatenated in order are the item sequence;
\* before that, one of the two sequences is a prefix of the other.
C2_PagesEqualItems ==
  LET flat == Concat(pagesOut["p1"])
  IN /\ IsPrefix(flat, itemsOut) \/ IsPrefix(itemsOut, flat)
     /\ (pcAll = "done" /\ pc["p1"] = "done") => flat = itemsOut

C2_Witness ==
  /\ pcAll = "done"
  /\ pc["p1"] = "done"
  /\ Len(pagesOut["p1"]) >= 2
  /\ Len(itemsOut) >= 3
  /\ \E p \in 1..NumPages : ~HasValue(p)

\* C3 as stated: when the first page response has no value array, nothing is
\* yielded, the iteration is over and the first request stays the only one.
C3_FirstPageNoValueEnds ==
  (lastResp["f"] # NoResp /\ ~HasValue(1)) =>
     (itemsOut = <<>> /\ pcAll = "done" /\ Len(reqs["f"]) = 1)

\* C4 as stated: a response without nextLink makes the iterator yield the
\* page (when it has a value array), and an iterator never sends a request
\* when its latest response had no nextLink.
C4_Original ==
  [][\A g \in ByPageGens :
       /\ Issued(g) => (lastResp'[g] = NoResp \/ Truthy(lastResp'[g]))
       /\ (Responded(g) /\ ~Truthy(lastResp'[g]) /\ HasValue(inflight[g].url)) =>
             pagesOut'[g] = Append(pagesOut[g], MapPage(Value(inflight[g].url)))]_vars

\* C4, amended: the same, for an iterator whose settings object no other
\* iterator was given.
C4_NoFetchAfterLastPage ==
  [][\A g \in ByPageGens : Private(g)' =>
       /\ Issued(g) => (lastResp'[g] = NoResp \/ Truthy(lastResp'[g]))
       /\ (Responded(g) /\ ~Truthy(lastResp'[g])) =>
             /\ pc'[g] \in {"yield1", "yieldN", "done"}
             /\ HasValue(inflight[g].url) =>
                  pagesOut'[g] = Append(pagesOut[g], MapPage(Value(inflight[g].url)))]_vars

C4_Witness ==
  \E g \in ByPageGens :
    /\ Private(g)
    /\ lastResp[g] = Null
    /\ pc[g] = "done"
    /\ ended[g]
    /\ Len(reqs[g]) >= 2
    /\ Len(pagesOut[g]) >= 2

\* C5 as stated: every request after the first carries the nextLink of the
\* iterator's preceding response, and the first request of a byPage iterator
\* started with a token carries that token.
C5_Original ==
  [][\A g \in ByPageGens : Issued(g) =>
       IF reqs[g] = <<>>
         THEN Truthy(startTok[g]) => inflight'[g].url = startTok[g]
         ELSE inflight'[g].url = lastResp'[g]]_vars

\* C5, amended: the same, for an iterator whose settings object no other
\* iterator was given.
C5_TokenRoundTrip ==
  [][\A g \in ByPageGens : (Private(g)' /\ Issued(g)) =>
       IF reqs[g] = <<>>
         THEN Truthy(startTok[g]) => inflight'[g].url = startTok[g]
         ELSE inflight'[g].url = lastResp'[g]]_vars

C5_Witness ==
  \E g \in ByPageGens :
    /\ Private(g)
    /\ Truthy(startTok[g])
    /\ Len(reqs[g]) >= 2
    /\ reqs[g][1].url = startTok[g]
    /\ reqs[g][2].url = startTok[g] + 1

\* C6: the page generator of a list result and a poller never have more than
\* one request outstanding, however many next() or poll() calls are queued.
C6_Sequential == (\A g \in PageGens : outstanding[g] <= 1) /\ pollNet <= 1

C6_Witness ==
  /\ pendingAll >= 2
  /\ outstanding["f"] = 1
  /\ Len(reqs["f"]) >= 2
  /\ pollPending >= 2
  /\ pollNet = 1
  /\ pollKind = "probe"

\* C7: whenever the list result sends a page request, a next() of the
\* consumer is waiting, no item of an earlier page is left to yield and
\* every item of every page received so far has been yielded.
C7_Lazy ==
  [][Issued("f") =>
       /\ pendingAll' > 0
       /\ curPage' = <<>>
       /\ itemsOut' = Concat(pagesOut'["f"])]_vars

C7_Witness ==
  /\ pages[1] = 2
  /\ Len(reqs["f"]) >= 2
  /\ outstanding["f"] = 1
  /\ Len(itemsOut) = 2

\* C8: the list result asks for the first page at most once and yields no
\* item twice; [Symbol.asyncIterator]() changes nothing of the iteration;
\* once a next() has reported done, nothing more is yielded or requested.
C8_ForwardOnly ==
  /\ [](/\ Cardinality({i \in DOMAIN reqs["f"] : reqs["f"][i].url = VaultUrl}) <= 1
        /\ \A i, j \in DOMAIN itemsOut : itemsOut[i] = itemsOut[j] => i = j)
  /\ [][/\ handleAt' # handleAt =>
             UNCHANGED <<pcAll, pendingAll, curPage, itemsOut, endedAll, settings, pc,
                         reqs, inflight>>
        /\ endedAll => (endedAll' /\ pcAll' = "done" /\ itemsOut' = itemsOut
                        /\ reqs'["f"] = reqs["f"])]_vars

C8_Witness ==
  /\ handleAt >= 1
  /\ Len(itemsOut) > handleAt
  /\ Len(reqs["f"]) >= 2
  /\ endedAll
  /\ pendingAll = 0

\* C9 as stated: a byPage iterator started with a token T never asks for the
\* first page, its first request is made with T and it ends having yielded
\* every page from T on; started without a token its first request is for
\* the first page.
C9_Original ==
  \A g \in ByPageGens :
    /\ Truthy(startTok[g]) =>
         /\ \A i \in DOMAIN reqs[g] : reqs[g][i].url # VaultUrl
         /\ reqs[g] # <<>> => reqs[g][1].url = startTok[g]
         /\ pc[g] = "done" => pagesOut[g] = AllPagesFrom(startTok[g])
    /\ (startTok[g] = Null /\ reqs[g] # <<>>) => reqs[g][1].url = VaultUrl

\* C9, amended: the same for an iterator whose settings object no other
\* iterator was given, the pages yielded being those from T up to the first
\* page without a value array.
C9_StartsAtToken ==
  \A g \in ByPageGens : Private(g) =>
    /\ Truthy(startTok[g]) =>
         /\ \A i \in DOMAIN reqs[g] : reqs[g][i].url # VaultUrl
         /\ reqs[g] # <<>> => reqs[g][1].url = startTok[g]
         /\ IsPrefix(pagesOut[g], PagesUntilNoValue(startTok[g]))
         /\ pc[g] = "done" => pagesOut[g] = PagesUntilNoValue(startTok[g])
    /\ (startTok[g] = Null /\ reqs[g] # <<>>) => reqs[g][1].url = VaultUrl

C9_Witness ==
  \E g \in ByPageGens :
    /\ Private(g)
    /\ Truthy(startTok[g])
    /\ pc[g] = "done"
    /\ Len(pagesOut[g]) >= 2

\* C10 as stated: every request of a byPage iterator carries the page-size
\* hint as maxresults.
C10_Original ==
  \A g \in ByPageGens : \A i \in DOMAIN reqs[g] : reqs[g][i].maxresults = hint[g]

\* C10, amended: the request for the first page carries the hint as
\* maxresults; a request made with a continuation token carries none.
C10_HintOnFirstPageOnly ==
  \A g \in ByPageGens : \A i \in DOMAIN reqs[g] :
    reqs[g][i].maxresults = IF reqs[g][i].url = VaultUrl THEN hint[g] ELSE NoMax

C10_Witness ==
  \E g \in ByPageGens :
    /\ hint[g] = 2
    /\ Len(reqs[g]) >= 2
    /\ reqs[g][1].url = VaultUrl
    /\ reqs[g][1].maxresults = 2
    /\ reqs[g][2].maxresults = NoMax

(* ------------------------------- C11 ---------------------------------- *)
\* C11: the status of a poller changes only along NotStarted -> InProgress ->
\* {Succeeded, Failed}; once it is Succeeded or Failed it never changes
\* again and no step sends a request, whatever poll() or pollUntilDone()
\* calls are made.
C11_Lifecycle ==
  [][/\ status' # status =>
          <<status, status'>> \in {<<"NotStarted", "InProgress">>,
                                   <<"InProgress", "Succeeded">>,
                                   <<"InProgress", "Failed">>}
     /\ Terminal => /\ status' = status
                     /\ pollNet' <= pollNet
                     /\ starts' = starts]_vars

\* a poller rebuilt in a terminal state was polled by begin... and a
\* pollUntilDone() on it has settled, with nothing sent
C11_Witness ==
  /\ resumedAt = "Failed"
  /\ status = "Failed"
  /\ udPc = "rejected"
  /\ pollNet = 0

(* ------------------------------- C12 ---------------------------------- *)
\* C12: the delete (recover) request is sent once per logical operation, by
\* the first poll from NotStarted; every other request of the poller is the
\* get probe of its kind, the deleted secret for the delete poller and the
\* live secret for the recover poller.
C12_StartOnce ==
  /\ starts = (IF beginPc = "idle" THEN 0 ELSE 1)
  /\ pollNet > 0 =>
        IF pollKind = "start"
          THEN /\ status = "NotStarted"
               /\ pollOp = (IF kind = "delete" THEN "deleteSecret"
                            ELSE "recoverDeletedSecret")
          ELSE pollOp = (IF kind = "delete" THEN "getDeletedSecret" ELSE "getSecret")

\* a later poll of a recover poller has a probe in flight
C12_Witness ==
  /\ kind = "recover"
  /\ lastAnswer.req = "probe"
  /\ pollKind = "probe"
  /\ pollNet = 1
  /\ starts = 1

(* ------------------------------- C13 ---------------------------------- *)
\* C13: no poll() sends more than one request, the first poll included.
C13_OneRoundTrip == trips <= 1

\* the first poll has settled after its one request, and the next poll has
\* sent its one request
C13_Witness ==
  /\ lastAnswer.req = "start"
  /\ lastAnswer.outcome = "ok"
  /\ beginPc = "returned"
  /\ trips = 1

(* ------------------------------- C14 ---------------------------------- *)
\* C14: a not-found answer to the probe is not thrown and leaves the poller
\* InProgress; the poller is Succeeded exactly when a probe found the
\* target, and Failed only after a probe failed with another error.
C14_ProbeOutcome ==
  /\ (lastAnswer.req = "probe" /\ lastAnswer.outcome = "notfound") =>
        (raised = "none" /\ status = "InProgress")
  /\ (lastAnswer.req = "probe" /\ lastAnswer.outcome = "ok") => status = "Succeeded"
  /\ status = "Succeeded" => (lastAnswer.req = "probe" /\ lastAnswer.outcome = "ok")
  /\ status = "Failed" =>
        (lastAnswer.req = "probe" /\ lastAnswer.outcome \notin {"ok", "notfound"})

\* a probe of the delete poller was answered not-found and the caller, who
\* got no error, runs pollUntilDone
C14_Witness ==
  /\ kind = "delete"
  /\ lastAnswer.req = "probe"
  /\ lastAnswer.outcome = "notfound"
  /\ status = "InProgress"
  /\ udPc = "loop"

(* ------------------------------- C15 ---------------------------------- *)
\* C15: an error answer to the delete or recover request, and an error
\* answer to the probe other than not-found, is what the poll() throws,
\* unchanged; when the poll inside begin... throws, begin... rejects and
\* nobody holds a poller: nothing is in flight or called afterwards.
C15_ErrorsReachCaller ==
  /\ (/\ lastAnswer.outcome \notin {"none", "ok"}
      /\ ~(lastAnswer.req = "probe" /\ lastAnswer.outcome = "notfound")) =>
        raised = lastAnswer.outcome
  /\ (lastAnswer.req = "start" /\ lastAnswer.outcome # "ok") => beginPc = "rejected"
  /\ beginPc = "rejected" =>
        /\ raised # "none"
        /\ pollNet = 0
        /\ pollPending = 0
        /\ udPc = "idle"

\* the delete request failed and beginDeleteSecret rejected with that error
C15_Witness ==
  /\ kind = "delete"
  /\ lastAnswer.req = "start"
  /\ lastAnswer.outcome = "error"
  /\ raised = "error"
  /\ beginPc = "rejected"

C17_UntilDone ==
  /\ [](udPc = "returned" => status = "Succeeded")
  /\ [](udPc = "rejected" => (raised # "none" \/ status = "Failed"))
  /\ (udPc \in {"loop", "waiting"}) ~> (udPc \in {"returned", "rejected"})

\* pollUntilDone has returned after a probe found the target
C17_Witness ==
  /\ udPc = "returned"
  /\ status = "Succeeded"
  /\ result = "target"
  /\ lastAnswer.outcome = "ok"

(* ------------------------------- C18 ---------------------------------- *)
\* C18: on the URL a generated client hands to the next stage, every
\* api-version parameter has the client's apiVersion as its value,
\* whatever the URL of the request carried.
C18_ApiVersionWins ==
  request.forwarded > 0 =>
    \A i \in 1..Len(request.next.items) :
      request.next.items[i].name = "api-version" =>
        /\ request.next.items[i].eq
        /\ request.next.items[i].value = client.apiVersion

(* ------------------------------- C19 ---------------------------------- *)
\* C19: a constructor call with undefined or null credentials, or for
\* WorkloadsClient with an undefined or null subscription id, throws and
\* leaves no client: no pipeline is built and no policy is added.
C19_FailFast ==
  (\/ (client.state # "none" /\ client.credentials \in {Undefined, NullValue})
   \/ (client.which = "Workloads" /\ client.subscriptionId \in {Undefined, NullValue}))
    => (client.state = "threw" /\ client.pipeline = NoPipeline)

(* ------------------------------- C20 ---------------------------------- *)
\* C20: the properties of a shaped bundle never hold an old field name
\* together with its new name: expires with expiresOn, created with
\* createdOn, updated with updatedOn, deletedDate with deletedOn.
C20_NoOldWithNew ==
  shaped.state = "returned" =>
    \A pair \in {<<"expires", "expiresOn">>, <<"created", "createdOn">>,
                 <<"updated", "updatedOn">>, <<"deletedDate", "deletedOn">>} :
      ~(pair[1] \in DOMAIN shaped.properties /\ pair[2] \in DOMAIN shaped.properties)

\* a deleted bundle with all three timestamps was shaped
C20_Witness ==
  /\ shaped.state = "returned"
  /\ IsSet(given.attributes, "expires")
  /\ IsSet(given.attributes, "created")
  /\ IsSet(given.attributes, "updated")
  /\ IsSet(given.fields, "deletedDate")
  /\ shaped.properties["expiresOn"] = "date"
  /\ shaped.properties["deletedOn"] = "deleted"

(* ------------------------------- C21 ---------------------------------- *)
\* C21: result shaping leaves the bundle it is given as it was, attributes
\* included, and shaping that bundle again gives the same result.
C21_Pure ==
  shaped.state = "returned" =>
    /\ bundleObj = given
    /\ getSecretFromSecretBundle(bundleObj) = shaped

(* ------------------------------- C23 ---------------------------------- *)
\* C23: a constructor call leaves the options object of the caller as it
\* was given.
C23_OptionsUntouched == client.state # "none" => callerOptions = givenOptions

(* ------------------------------- C24 ---------------------------------- *)
\* C24: the pipeline of a constructed client holds exactly one bearer-token
\* policy, and that policy has the credential the client was given.
C24_OneBearerPolicy ==
  client.state = "built" =>
    /\ Cardinality({i \in 1..Len(client.pipeline) :
                      client.pipeline[i].name = BearerName}) = 1
    /\ \A i \in 1..Len(client.pipeline) :
         client.pipeline[i].name = BearerName =>
           client.pipeline[i].credential = client.credentials

(* ------------------------------- C25 ---------------------------------- *)
\* C25: while begin... waits, exactly one poll() is pending with its one
\* request; begin... returns when that request has been answered, with
\* nothing in flight; a poller returned for a fresh operation has sent the
\* delete or recover request and is not NotStarted.
C25_BeginPollsOnce ==
  /\ [](beginPc = "polling" => (pollNet = 1 /\ pollPending = 1 /\ trips = 1))
  /\ []((beginPc = "returned" /\ resumedAt = "none") =>
          (status # "NotStarted" /\ starts = 1))
  /\ [][(beginPc = "polling" /\ beginPc' = "returned") =>
          /\ pollNet' = 0
          /\ pollPending' = 0
          /\ lastAnswer'.req = (IF resumedAt = "none" THEN "start" ELSE "probe")]_vars

\* beginRecoverDeletedSecret has returned its poller and nothing else was
\* done with it
C25_Witness ==
  /\ kind = "recover"
  /\ beginPc = "returned"
  /\ resumedAt = "none"
  /\ status = "InProgress"
  /\ lastAnswer.req = "start"
  /\ pollNet = 0
  /\ udPc = "idle"

(* ------------------------------- C26 ---------------------------------- *)
\* C26: the URL handed to the next stage differs from the URL of the
\* request in nothing but the value of the api-version parameter: same
\* path, same query or none, same parameters in the same order, every other
\* parameter with its name and value; and the request is handed on once.
C26_Frame ==
  request.forwarded > 0 =>
    /\ request.forwarded = 1
    /\ request.next.path = request.url.path
    /\ request.next.hasQuery = request.url.hasQuery
    /\ request.next.more = request.url.more
    /\ Len(request.next.items) = Len(request.url.items)
    /\ \A i \in 1..Len(request.url.items) :
         IF request.url.items[i].name = "api-version"
           THEN /\ request.next.items[i].name = "api-version"
                /\ request.next.items[i].eq = request.url.items[i].eq
           ELSE request.next.items[i] = request.url.items[i]

(* ------------------------------- C27 ---------------------------------- *)
\* C27: when the response to a request of the loop has no value array, the
\* page generator is finished in that step, having stored the nextLink of
\* that response as the continuation token, and a finished generator sends
\* nothing.
C27_NoValueEnds ==
  [][\A g \in PageGens :
       /\ (pc[g] = "fetchN" /\ (Responded(g) \/ Issued(g)) /\ ~HasValue(inflight[g].url)) =>
             /\ pc'[g] = "done"
             /\ ~Issued(g)
             /\ settings'[cursor[g]].continuationToken = NextLink(inflight[g].url)
       /\ pc[g] = "done" => (pc'[g] = "done" /\ ~Issued(g))]_vars

\* the second of three pages had a nextLink and no value array: the byPage
\* iterator is over after two requests and the token is the link to page 3
C27_Witness ==
  /\ NumPages = 3
  /\ HasValue(1)
  /\ ~HasValue(2)
  /\ pc["p1"] = "done"
  /\ ended["p1"]
  /\ Len(reqs["p1"]) = 2
  /\ settings["d1"].continuationToken = 3

(* ------------------------------- C28 ---------------------------------- *)
\* C28: in a step in which the service rejects the request a page generator
\* awaits, the generator ends with that error and the next() in progress
\* rejects with it (for the list result too), no page and no item is
\* yielded, no iterator reports done, and the continuation token of the
\* generator's settings object keeps its value.
C28_FetchFailure ==
  [][\A g \in PageGens :
       (Awaiting(g) /\ outstanding'[g] < outstanding[g] /\ lastResp'[g] = Failed) =>
          /\ thrown'[g] \in FetchErrors
          /\ pc'[g] = "done"
          /\ g \in ByPageGens => pending'[g] = pending[g] - 1
          /\ ended'[g] = ended[g]
          /\ pagesOut'[g] = pagesOut[g]
          /\ ~Issued(g)
          /\ settings'[cursor[g]].continuationToken
               = settings[cursor[g]].continuationToken
          /\ g = "f" => /\ thrownAll' = thrown'[g]
                        /\ pendingAll' = pendingAll - 1
                        /\ itemsOut' = itemsOut
                        /\ curPage' = curPage
                        /\ endedAll' = endedAll]_vars

\* the byPage iterator has yielded page 1 and its fetch of page 2 failed
\* with not-found: the token is still the link to page 2; the first fetch of
\* the list result failed with another error
C28_Witness ==
  /\ thrown["p1"] = "notfound"
  /\ Len(pagesOut["p1"]) = 1
  /\ Len(reqs["p1"]) = 2
  /\ settings["d1"].continuationToken = 2
  /\ thrownAll = "error"
  /\ itemsOut = <<>>
  /\ settings["f"].continuationToken = Null

(* ------------------------------- C22 ---------------------------------- *)
\* C22: on a vault whose only page holds two bundles without attributes and
\* has no nextLink, the list result raises no error, sends one request at
\* most, yields the items of the two bundles in order and then ends.
C22_TwoBareBundles ==
  (bare /\ pages = <<2>>) =>
     /\ thrownAll = "none"
     /\ Len(reqs["f"]) <= 1
     /\ IsPrefix(itemsOut, ExpectedItems)
     /\ (pcAll = "done" => itemsOut = ExpectedItems)

(* ------------------------------- C29 ---------------------------------- *)
\* C29: the continuation token of a settings object changes only in a step
\* of a generator that was given that object (its call, or a response it
\* receives); the generator of the list result and the byPage iterators have
\* different objects, except byPage iterators that were given the caller's
\* object.
C29_SeparateCursors ==
  /\ [](\A g \in PageGens : \A h \in PageGens \ {g} :
          (pc[g] # "absent" /\ pc[h] # "absent" /\ cursor[g] = cursor[h]) =>
             (cursor[g] = "s" /\ g \in ByPageGens /\ h \in ByPageGens))
  /\ [][\A o \in Objs :
          settings'[o].continuationToken # settings[o].continuationToken =>
            \E g \in PageGens :
              /\ cursor'[g] = o
              /\ \/ Awaiting(g) /\ (Responded(g) \/ Issued(g))
                 \/ pc[g] = "absent" /\ pc'[g] = "start"]_vars

\* the list result has fetched both pages while the two byPage iterators
\* share the caller's object: the second, called without a token, asks for
\* page 2 because the first has stored that link
C29_Witness ==
  /\ Len(reqs["f"]) = 2
  /\ cursor["p1"] = "s"
  /\ cursor["p2"] = "s"
  /\ startTok["p2"] = Null
  /\ Len(reqs["p1"]) = 1
  /\ Len(reqs["p2"]) = 1
  /\ reqs["p2"][1].url = 2
====
